---- MODULE Spec2Model ----
(***************************************************************************)
(* bumpytrack (src/bumpytrack.py): a version bump over a configuration     *)
(* file and a list of declared files, followed by optional git commit and  *)
(* git tag.                                                                *)
(*                                                                         *)
(* Python strings whose characters matter (versions, templates, file       *)
(* contents) are sequences of one-character strings.  An optional value    *)
(* (a dict key that may be absent, an argument that may be None) is a      *)
(* sequence of length at most one: <<>> is None, <<x>> is the value x.     *)
(***************************************************************************)
EXTENDS Integers, Sequences, FiniteSets, TLC

(***************************************************************************)
(* Bounds of the model.                                                    *)
(***************************************************************************)
\* longest version string the version harness enumerates exhaustively
MaxLen == 6
\* most entries of file_replaces in a configuration
MaxReplaces == 2

(***************************************************************************)
(* Python values.                                                          *)
(***************************************************************************)
None == <<>>
Some(x) == <<x>>

\* truth value of an optional string: None and "" are falsy
TruthyStr(o) == o # None /\ o[1] # <<>>

\* truth value of an optional bool: None and False are falsy
TruthyBool(o) == o # None /\ o[1]

\* outcome of a call: a returned value, fail() (message and exit(1)), or an
\* exception nobody catches
Ok(v) == [kind |-> "ok", val |-> v, error |-> "none"]
Fail(e) == [kind |-> "fail", val |-> <<>>, error |-> e]
Raise(e) == [kind |-> "raise", val |-> <<>>, error |-> e]

(***************************************************************************)
(* str.split("."), int(str), str(int), ".".join                            *)
(***************************************************************************)
DigitChars == <<"0", "1", "2", "3", "4", "5", "6", "7", "8", "9">>

IsDigit(c) == \E i \in 1..Len(DigitChars) : DigitChars[i] = c

DigitVal(c) == (CHOOSE i \in 1..Len(DigitChars) : DigitChars[i] = c) - 1

\* version.split("."): the pieces between the dots, empty pieces kept
RECURSIVE SplitAcc(_, _, _)
SplitAcc(s, sep, cur) ==
    IF s = <<>> THEN <<cur>>
    ELSE IF Head(s) = sep THEN <<cur>> \o SplitAcc(Tail(s), sep, <<>>)
    ELSE SplitAcc(Tail(s), sep, Append(cur, Head(s)))

Split(s, sep) == SplitAcc(s, sep, <<>>)

\* int() skips surrounding whitespace
RECURSIVE LStrip(_)
LStrip(s) == IF s # <<>> /\ Head(s) = " " THEN LStrip(Tail(s)) ELSE s

RECURSIVE RStrip(_)
RStrip(s) ==
    IF s # <<>> /\ s[Len(s)] = " " THEN RStrip(SubSeq(s, 1, Len(s) - 1)) ELSE s

Strip(s) == RStrip(LStrip(s))

\* int() takes one optional sign
HasSign(s) == s # <<>> /\ Head(s) \in {"+", "-"}

Unsigned(s) == IF HasSign(s) THEN Tail(s) ELSE s

\* int() takes digits, with single underscores between digits
IsIntBody(b) ==
    /\ b # <<>>
    /\ IsDigit(b[1])
    /\ IsDigit(b[Len(b)])
    /\ \A i \in 1..Len(b) : IsDigit(b[i]) \/ b[i] = "_"
    /\ \A i \in 1..(Len(b) - 1) : ~(b[i] = "_" /\ b[i + 1] = "_")

RECURSIVE BodyVal(_, _)
BodyVal(b, acc) ==
    IF b = <<>> THEN acc
    ELSE IF Head(b) = "_" THEN BodyVal(Tail(b), acc)
    ELSE BodyVal(Tail(b), 10 * acc + DigitVal(Head(b)))

\* whether int(tok) returns; it raises ValueError otherwise
IntOk(tok) == IsIntBody(Unsigned(Strip(tok)))

\* int(tok), base 10
IntOf(tok) ==
    LET s == Strip(tok)
        v == BodyVal(Unsigned(s), 0)
    IN  IF HasSign(s) /\ Head(s) = "-" THEN 0 - v ELSE v

\* str(n)
RECURSIVE NatStr(_)
NatStr(n) ==
    IF n < 10 THEN <<DigitChars[n + 1]>>
    ELSE NatStr(n \div 10) \o <<DigitChars[(n % 10) + 1]>>

IntStr(n) == IF n < 0 THEN <<"-">> \o NatStr(0 - n) ELSE NatStr(n)

\* sep.join(parts)
RECURSIVE Join(_, _)
Join(parts, sep) ==
    IF parts = <<>> THEN <<>>
    ELSE IF Len(parts) = 1 THEN parts[1]
    ELSE parts[1] \o <<sep>> \o Join(Tail(parts), sep)

(***************************************************************************)
(* parse_version, version_tokens_to_str, increment_version                 *)
(***************************************************************************)
\* the exceptions an `except RuntimeError` clause catches; SystemExit (raised
\* by exit(1) inside fail) and ValueError (raised by int) are not among them
RuntimeErrors == {"RuntimeError", "NotImplementedError", "RecursionError"}

\* the body of the try block: the token count check, then int() on each token
ParseTry(version) ==
    LET str_tokens == Split(version, ".")
    IN  IF Len(str_tokens) # 3 THEN Fail("InvalidVersionFormat")
        ELSE IF \E i \in 1..3 : ~IntOk(str_tokens[i]) THEN Raise("ValueError")
        ELSE Ok([i \in 1..3 |-> IntOf(str_tokens[i])])

parse_version(version) ==
    LET r == ParseTry(version)
    IN  IF r.kind = "raise" /\ r.error \in RuntimeErrors
        THEN Fail("InvalidVersionFormat")
        ELSE r

\* slip: the tokens are joined in reverse order
version_tokens_to_str_Reversed(int_tokens) ==
    Join([i \in 1..Len(int_tokens) |->
             IntStr(int_tokens[Len(int_tokens) + 1 - i])], ".")

version_tokens_to_str(int_tokens) ==
    Join([i \in 1..Len(int_tokens) |-> IntStr(int_tokens[i])], ".")

\* slip: minor keeps the patch number and tiny bumps the minor number
NewTokens_NoReset(t, part) ==
    IF part = "major" THEN Ok(<<t[1] + 1, 0, 0>>)
    ELSE IF part = "minor" THEN Ok(<<t[1], t[2] + 1, t[3]>>)
    ELSE IF part = "tiny" THEN Ok(<<t[1], t[2] + 1, t[3]>>)
    ELSE Fail("InvalidPart")

\* the if/elif chain on part; part is a Python string
NewTokens(t, part) ==
    IF part = "major" THEN Ok(<<t[1] + 1, 0, 0>>)
    ELSE IF part = "minor" THEN Ok(<<t[1], t[2] + 1, 0>>)
    ELSE IF part = "tiny" THEN Ok(<<t[1], t[2], t[3] + 1>>)
    ELSE Fail("InvalidPart")

increment_version(current_version, part) ==
    LET p == parse_version(current_version)
    IN  IF p.kind # "ok" THEN p
        ELSE LET n == NewTokens(p.val, part)
             IN  IF n.kind # "ok" THEN n
                 ELSE Ok(version_tokens_to_str(n.val))

(***************************************************************************)
(* file_replace                                                            *)
(***************************************************************************)
\* the "{version}" replacement field of a search template; every other item
\* of a template is a literal character
VER == "{version}"

\* search_template.format(version=v)
RECURSIVE Format(_, _)
Format(template, v) ==
    IF template = <<>> THEN <<>>
    ELSE (IF Head(template) = VER THEN v ELSE <<Head(template)>>)
         \o Format(Tail(template), v)

\* s.replace("", new): new before every character and at the end
RECURSIVE Interleave(_, _)
Interleave(s, new) ==
    IF s = <<>> THEN new ELSE new \o <<Head(s)>> \o Interleave(Tail(s), new)

\* s.replace(old, new): every occurrence, left to right, not overlapping
RECURSIVE StrReplace(_, _, _)
StrReplace(s, old, new) ==
    IF old = <<>> THEN Interleave(s, new)
    ELSE IF Len(s) < Len(old) THEN s
    ELSE IF SubSeq(s, 1, Len(old)) = old
         THEN new \o StrReplace(SubSeq(s, Len(old) + 1, Len(s)), old, new)
    ELSE <<Head(s)>> \o StrReplace(Tail(s), old, new)

\* os.access(file_path, os.R_OK | os.W_OK): the file exists and may be read
\* and written
Access(f) == f.perm = "rw"

\* slip: the comparison of the old and the new content is left out
file_replace_NoCheck(fs, file_replace_config, cur, new) ==
    LET file_path == file_replace_config.path
        search == Format(file_replace_config.search_template, cur)
        replace == Format(file_replace_config.search_template, new)
        original_file_contents == fs[file_path].content
        new_file_contents == StrReplace(original_file_contents, search, replace)
    IN  IF ~Access(fs[file_path])
        THEN [res |-> Fail("FileNotAccessible"), files |-> fs, wrote |-> FALSE]
        ELSE [res |-> Ok(file_path),
              files |-> [fs EXCEPT ![file_path].content = new_file_contents],
              wrote |-> TRUE]

\* slip: a failure is reported and the call returns, so the loop goes on
file_replace_Continue(fs, file_replace_config, cur, new) ==
    LET file_path == file_replace_config.path
        search == Format(file_replace_config.search_template, cur)
        replace == Format(file_replace_config.search_template, new)
        original_file_contents == fs[file_path].content
        new_file_contents == StrReplace(original_file_contents, search, replace)
    IN  IF ~Access(fs[file_path]) \/ original_file_contents = new_file_contents
        THEN [res |-> Ok(file_path), files |-> fs, wrote |-> FALSE]
        ELSE [res |-> Ok(file_path),
              files |-> [fs EXCEPT ![file_path].content = new_file_contents],
              wrote |-> TRUE]

\* one call: the outcome, the files afterwards, and whether the file was
\* opened for writing
file_replace(fs, file_replace_config, cur, new) ==
    LET file_path == file_replace_config.path
        search == Format(file_replace_config.search_template, cur)
        replace == Format(file_replace_config.search_template, new)
        original_file_contents == fs[file_path].content
        new_file_contents == StrReplace(original_file_contents, search, replace)
    IN  IF ~Access(fs[file_path])
        THEN [res |-> Fail("FileNotAccessible"), files |-> fs, wrote |-> FALSE]
        ELSE IF original_file_contents = new_file_contents
        THEN [res |-> Fail("NoReplacementPerformed"), files |-> fs, wrote |-> FALSE]
        ELSE [res |-> Ok(file_path),
              files |-> [fs EXCEPT ![file_path].content = new_file_contents],
              wrote |-> TRUE]

(***************************************************************************)
(* git_commit, git_tag: the command lines                                  *)
(***************************************************************************)
\* f"Bumping version: {current_version} -> {new_version}", kept as its
\* literal pieces and its two interpolated values
CommitMessage(cur, new) == <<"Bumping version: ", cur, " -> ", new>>

GitResetCmd == <<"git", "reset", "HEAD">>

GitAddCmd(paths) == <<"git", "add">> \o paths

GitCommitCmd(cur, new) == <<"git", "commit", "-m", CommitMessage(cur, new)>>

\* f"v{new_version}"
TagName(new) == <<"v">> \o new

GitTagCmd(new) == <<"git", "tag", TagName(new)>>

(***************************************************************************)
(* State of one run of main, and of the version functions called alone.    *)
(***************************************************************************)
VARIABLES
    pc,                   \* position in main
    args,                 \* the keyword arguments (fixed for a run), each
                          \* entered when main first reads it
    yaml_document,        \* what yaml.load returns for the configuration file
    files,                \* the files on disk: path -> [perm, content]
    config_path,
    config,
    current_version,
    new_version,
    file_replace_configs,
    modified_files,
    writes,               \* the paths opened for writing, in order
    commands,             \* the commands handed to subprocess.run, with exit codes
    error,                \* why the run ended, "none" while it has not failed
    call,                 \* version harness: the function being called
    version,              \* version harness: the string argument
    part,                 \* version harness: the part argument
    returned              \* version harness: the outcome of the call

vars == <<pc, args, yaml_document, files, config_path, config, current_version,
          new_version, file_replace_configs, modified_files, writes, commands,
          error, call, version, part, returned>>

runVars == <<pc, args, yaml_document, files, config_path, config,
             current_version, new_version, file_replace_configs,
             modified_files, writes, commands, error>>

fnVars == <<call, version, part, returned>>

(***************************************************************************)
(* The inputs of a run.                                                    *)
(***************************************************************************)
V010 == <<"0", ".", "1", ".", "0">>
V100 == <<"1", ".", "0", ".", "0">>
\* two tokens only
V10 == <<"1", ".", "0">>
\* a token int() refuses
V01x == <<"0", ".", "1", ".", "x">>

DefaultConfigPath == ".bumpytrack.yml"
AltConfigPath == "alt.yml"
ConfigPaths == {DefaultConfigPath, AltConfigPath}
OtherPaths == {"VERSION", "setup.py"}

\* the text "current_version: " of the configuration file's own line
CurrentVersionKey ==
    <<"c", "u", "r", "r", "e", "n", "t", "_", "v", "e", "r", "s", "i", "o", "n",
      ":", " ">>

\* the entries a configuration may declare under file_replaces
ReplaceEntries ==
    { [path |-> "VERSION", search_template |-> <<VER>>],
      [path |-> "setup.py", search_template |-> <<"v", "=", VER>>] }

ReplaceLists == UNION { [1..n -> ReplaceEntries] : n \in 0..MaxReplaces }

OptBool == {None, Some(TRUE), Some(FALSE)}

\* the documents yaml.load may return
Documents ==
    [ current_version : {None, Some(V010), Some(V01x)},
      file_replaces : {None} \cup { Some(l) : l \in ReplaceLists },
      git_commit : OptBool,
      git_tag : OptBool ]

\* the configuration file's text: its current_version line when it has one
ConfigText(doc) ==
    IF doc.current_version = None THEN <<"#", "\n">>
    ELSE CurrentVersionKey \o doc.current_version[1] \o <<"\n">>

\* command line values
ArgConfigPaths == {None, Some(AltConfigPath)}
ArgCurrentVersions == {None, Some(<<>>), Some(V010), Some(V100), Some(V10)}
ArgNewVersions == {None, Some(V100), Some(V010)}
ArgParts == {None, Some("major"), Some("minor"), Some("tiny"), Some("patch")}

\* exit codes of a git command
ExitCodes == {0, 1}

\* the positions at which main has stopped
Ended == {"Done", "Failed", "Crashed"}

(***************************************************************************)
(* The steps of main, as functions of what they read.                      *)
(***************************************************************************)
\* yaml.load(open(config_path)) inside try / except RuntimeError: open raises
\* FileNotFoundError for a missing file
LoadTry(fs, path, doc) ==
    IF fs[path].perm = "none" THEN Raise("FileNotFoundError") ELSE Ok(doc)

LoadYaml(fs, path, doc) ==
    LET r == LoadTry(fs, path, doc)
    IN  IF r.kind = "raise" /\ r.error \in RuntimeErrors
        THEN Fail("ConfigLoadError")
        ELSE r

\* args.get("config_path") or ".bumpytrack.yml"
ConfigPathOf(arg) == IF arg # None THEN arg[1] ELSE DefaultConfigPath

\* slip: the configuration's value is taken before the argument
ResolveCurrentVersion_ConfigFirst(arg, cfg) ==
    LET cur == IF TruthyStr(cfg.current_version) THEN cfg.current_version ELSE arg
    IN  IF ~TruthyStr(cur) THEN Fail("MissingCurrentVersion") ELSE Ok(cur[1])

\* args.get("current_version") or config.get("current_version"), then the
\* `if not current_version` test
ResolveCurrentVersion(arg, cfg) ==
    LET cur == IF TruthyStr(arg) THEN arg ELSE cfg.current_version
    IN  IF ~TruthyStr(cur) THEN Fail("MissingCurrentVersion") ELSE Ok(cur[1])

\* slip: the part is tested before the explicit new version
ResolveNewVersion_PartFirst(arg_new, arg_part, cur) ==
    IF arg_part # None /\ arg_part[1] # "" THEN increment_version(cur, arg_part[1])
    ELSE IF TruthyStr(arg_new) THEN Ok(arg_new[1])
    ELSE Fail("MissingNewVersion")

\* the if / elif / else on args.get("new_version") and args.get("part")
ResolveNewVersion(arg_new, arg_part, cur) ==
    IF TruthyStr(arg_new) THEN Ok(arg_new[1])
    ELSE IF arg_part # None /\ arg_part[1] # "" THEN increment_version(cur, arg_part[1])
    ELSE Fail("MissingNewVersion")

\* slip: the configuration file is appended after file_replaces
PlanReplacements_ConfigLast(path, cfg) ==
    (IF cfg.file_replaces = None THEN <<>> ELSE cfg.file_replaces[1])
    \o <<[path |-> path, search_template |-> CurrentVersionKey \o <<VER>>]>>

\* file_replace_configs: the configuration file itself, then file_replaces
PlanReplacements(path, cfg) ==
    <<[path |-> path, search_template |-> CurrentVersionKey \o <<VER>>]>>
    \o (IF cfg.file_replaces = None THEN <<>> ELSE cfg.file_replaces[1])

\* slip: args.get(flag) or config.get(flag), which lets a False override
\* fall through to the configuration
Effective_Or(override, configured) ==
    TruthyBool(override) \/ TruthyBool(configured)

\* args.get(flag) if args.get(flag) is not None else config.get(flag)
Effective(override, configured) ==
    IF override # None THEN override[1] ELSE TruthyBool(configured)

\* slip: the exit code is not looked at
run_command_IgnoreExit(returncode) == Ok(<<>>)

\* run_command: fail() on a nonzero exit code
run_command(returncode) ==
    IF returncode # 0 THEN Fail("ExternalCommandFailed") ELSE Ok(<<>>)

(***************************************************************************)
(* main, step by step.                                                     *)
(***************************************************************************)
Read(key, value) == args' = (key :> value) @@ args

\* fail() ends the process with exit(1); an uncaught exception ends it too
End(r) ==
    /\ pc' = IF r.kind = "fail" THEN "Failed" ELSE "Crashed"
    /\ error' = r.error

\* what a file holds before the run: the configuration file its text, VERSION
\* the version, setup.py a line v=<version>; a missing file nothing
InitialContent(p, perm, doc) ==
    IF perm = "none" THEN <<>>
    ELSE IF p \in ConfigPaths THEN ConfigText(doc)
    ELSE IF p = "VERSION" THEN V010 \o <<"\n">>
    ELSE <<"v", "=">> \o V010 \o <<"\n">>

\* the configuration file is at one of its two paths and may be read-only;
\* VERSION may be missing
InitFiles(doc) ==
    { [p \in ConfigPaths \cup OtherPaths |->
          LET perm == IF p = loc THEN cperm
                      ELSE IF p \in ConfigPaths THEN "none"
                      ELSE IF p = "VERSION" THEN vperm
                      ELSE "rw"
          IN  [perm |-> perm, content |-> InitialContent(p, perm, doc)]] :
      loc \in ConfigPaths, cperm \in {"rw", "r"}, vperm \in {"rw", "none"} }

IdleCall ==
    /\ call = "none"
    /\ version = <<>>
    /\ part = ""
    /\ returned = [kind |-> "none", val |-> <<>>, error |-> "none"]

NotStarted ==
    /\ args = <<>>
    /\ config_path = ""
    /\ config = None
    /\ current_version = <<>>
    /\ new_version = <<>>
    /\ file_replace_configs = <<>>
    /\ modified_files = <<>>
    /\ writes = <<>>
    /\ commands = <<>>
    /\ error = "none"

Init ==
    /\ pc = "LoadConfig"
    /\ yaml_document \in Documents
    /\ files \in InitFiles(yaml_document)
    /\ NotStarted
    /\ IdleCall

LoadConfig ==
    /\ pc = "LoadConfig"
    /\ \E a \in ArgConfigPaths :
          LET r == LoadYaml(files, ConfigPathOf(a), yaml_document)
          IN  /\ Read("config_path", a)
              /\ config_path' = ConfigPathOf(a)
              /\ IF r.kind = "ok"
                 THEN /\ config' = r.val
                      /\ pc' = "ResolveCurrentVersion"
                      /\ error' = error
                 ELSE /\ config' = config
                      /\ End(r)
    /\ UNCHANGED <<yaml_document, files, current_version, new_version,
                   file_replace_configs, modified_files, writes, commands>>
    /\ UNCHANGED fnVars

GetCurrentVersion ==
    /\ pc = "ResolveCurrentVersion"
    /\ \E a \in ArgCurrentVersions :
          LET r == ResolveCurrentVersion(a, config)
          IN  /\ Read("current_version", a)
              /\ IF r.kind = "ok"
                 THEN /\ current_version' = r.val
                      /\ pc' = "ResolveNewVersion"
                      /\ error' = error
                 ELSE /\ current_version' = current_version
                      /\ End(r)
    /\ UNCHANGED <<yaml_document, files, config_path, config, new_version,
                   file_replace_configs, modified_files, writes, commands>>
    /\ UNCHANGED fnVars

GetNewVersion ==
    /\ pc = "ResolveNewVersion"
    /\ \E a \in ArgNewVersions, p \in ArgParts :
          LET r == ResolveNewVersion(a, p, current_version)
          IN  /\ args' = ("new_version" :> a) @@ ("part" :> p) @@ args
              /\ IF r.kind = "ok"
                 THEN /\ new_version' = r.val
                      /\ pc' = "PlanReplacements"
                      /\ error' = error
                 ELSE /\ new_version' = new_version
                      /\ End(r)
    /\ UNCHANGED <<yaml_document, files, config_path, config, current_version,
                   file_replace_configs, modified_files, writes, commands>>
    /\ UNCHANGED fnVars

BuildPlan ==
    /\ pc = "PlanReplacements"
    /\ file_replace_configs' = PlanReplacements(config_path, config)
    /\ modified_files' = <<>>
    /\ pc' = "ApplyReplacements"
    /\ UNCHANGED <<args, yaml_document, files, config_path, config,
                   current_version, new_version, writes, commands, error>>
    /\ UNCHANGED fnVars

\* one iteration of the for loop over file_replace_configs
ApplyReplacement ==
    /\ pc = "ApplyReplacements"
    /\ Len(modified_files) < Len(file_replace_configs)
    /\ LET file_replace_config == file_replace_configs[Len(modified_files) + 1]
           r == file_replace(files, file_replace_config, current_version,
                             new_version)
       IN  /\ files' = r.files
           /\ writes' = IF r.wrote THEN Append(writes, file_replace_config.path)
                        ELSE writes
           /\ IF r.res.kind = "ok"
              THEN /\ modified_files' = Append(modified_files, r.res.val)
                   /\ pc' = IF Len(modified_files') = Len(file_replace_configs)
                            THEN "Commit" ELSE "ApplyReplacements"
                   /\ error' = error
              ELSE /\ modified_files' = modified_files
                   /\ End(r.res)
    /\ UNCHANGED <<args, yaml_document, config_path, config, current_version,
                   new_version, file_replace_configs, commands>>
    /\ UNCHANGED fnVars

\* the test that guards the call of git_commit
CommitGate ==
    /\ pc = "Commit"
    /\ \E a \in OptBool :
          /\ Read("git_commit", a)
          /\ pc' = IF Effective(a, config.git_commit) THEN "git_reset" ELSE "Tag"
    /\ UNCHANGED <<yaml_document, files, config_path, config, current_version,
                   new_version, file_replace_configs, modified_files, writes,
                   commands, error>>
    /\ UNCHANGED fnVars

\* one run_command call: the command line is logged with its exit code
RunCommand(at, argv, next) ==
    /\ pc = at
    /\ \E returncode \in ExitCodes :
          LET r == run_command(returncode)
          IN  /\ commands' = Append(commands,
                                    [argv |-> argv, returncode |-> returncode])
              /\ IF r.kind = "ok"
                 THEN pc' = next /\ error' = error
                 ELSE End(r)
    /\ UNCHANGED <<args, yaml_document, files, config_path, config,
                   current_version, new_version, file_replace_configs,
                   modified_files, writes>>
    /\ UNCHANGED fnVars

RunGitReset == RunCommand("git_reset", GitResetCmd, "git_add")

RunGitAdd == RunCommand("git_add", GitAddCmd(modified_files), "git_commit")

RunGitCommit ==
    RunCommand("git_commit", GitCommitCmd(current_version, new_version), "Tag")

\* the test that guards the call of git_tag
TagGate ==
    /\ pc = "Tag"
    /\ \E a \in OptBool :
          /\ Read("git_tag", a)
          /\ pc' = IF Effective(a, config.git_tag) THEN "git_tag" ELSE "Done"
    /\ UNCHANGED <<yaml_document, files, config_path, config, current_version,
                   new_version, file_replace_configs, modified_files, writes,
                   commands, error>>
    /\ UNCHANGED fnVars

RunGitTag == RunCommand("git_tag", GitTagCmd(new_version), "Done")

Next ==
    \/ LoadConfig
    \/ GetCurrentVersion
    \/ GetNewVersion
    \/ BuildPlan
    \/ ApplyReplacement
    \/ CommitGate
    \/ RunGitReset
    \/ RunGitAdd
    \/ RunGitCommit
    \/ TagGate
    \/ RunGitTag

Spec == Init /\ [][Next]_vars

(***************************************************************************)
(* The version functions called alone, on every short string over a small  *)
(* alphabet and on some longer strings.                                    *)
(***************************************************************************)
Alphabet == {"0", "1", ".", "x", "-"}

Strings(n) == UNION { [1..k -> Alphabet] : k \in 0..n }

LongerVersions ==
    { <<"1", ".", "2">>,
      <<"1", ".", "2", ".", "x">>,
      <<"1", ".", "2", ".", "3">>,
      <<"1", ".", "2", ".", "3", ".", "4">>,
      <<"0", "1", ".", "2", ".", "3">>,
      <<"+", "1", ".", "2", ".", "3">>,
      <<" ", "1", ".", "2", ".", "3">>,
      <<"1", "_", "0", ".", "2", ".", "3">>,
      <<"1", "0", ".", "9", ".", "9", "9">>,
      <<"-", "1", ".", "2", ".", "3">> }

VersionStrings == Strings(MaxLen) \cup LongerVersions

PartStrings == {"major", "minor", "tiny", "patch", ""}

\* main is not running
Idle ==
    /\ pc = "Idle"
    /\ yaml_document = None
    /\ files = <<>>
    /\ NotStarted

InitVersion ==
    /\ Idle
    /\ call = "none"
    /\ version \in VersionStrings
    /\ part = ""
    /\ returned = [kind |-> "none", val |-> <<>>, error |-> "none"]

CallParseVersion ==
    /\ call = "none"
    /\ call' = "parse_version"
    /\ returned' = parse_version(version)
    /\ UNCHANGED <<version, part>>
    /\ UNCHANGED runVars

\* the tokens parse_version returned, handed to version_tokens_to_str
CallVersionTokensToStr ==
    /\ call = "parse_version"
    /\ returned.kind = "ok"
    /\ call' = "version_tokens_to_str"
    /\ returned' = Ok(version_tokens_to_str(returned.val))
    /\ UNCHANGED <<version, part>>
    /\ UNCHANGED runVars

CallIncrementVersion ==
    /\ call = "none"
    /\ \E p \in PartStrings :
          /\ part' = p
          /\ returned' = increment_version(version, p)
    /\ call' = "increment_version"
    /\ UNCHANGED version
    /\ UNCHANGED runVars

NextVersion ==
    \/ CallParseVersion
    \/ CallVersionTokensToStr
    \/ CallIncrementVersion

SpecVersion == InitVersion /\ [][NextVersion]_vars

(***************************************************************************)
(* Properties of the version functions (checked under SpecVersion).        *)
(***************************************************************************)
\* a token written with decimal digits only
IsNumeral(tok) == tok # <<>> /\ \A i \in 1..Len(tok) : IsDigit(tok[i])

\* a numeral without a leading zero
IsCanonical(tok) == IsNumeral(tok) /\ (Len(tok) = 1 \/ tok[1] # "0")

\* C8: for every version that parses to (major, minor, patch), increment by
\* major gives (major+1, 0, 0), by minor (major, minor+1, 0), by tiny
\* (major, minor, patch+1), returned as the formatted string; any other part
\* fails with InvalidPart and returns no version.
C8_Increment ==
    (call = "increment_version" /\ parse_version(version).kind = "ok") =>
        LET v == parse_version(version).val
            expected == IF part = "major" THEN <<v[1] + 1, 0, 0>>
                        ELSE IF part = "minor" THEN <<v[1], v[2] + 1, 0>>
                        ELSE <<v[1], v[2], v[3] + 1>>
        IN  IF part \in {"major", "minor", "tiny"}
            THEN /\ returned.kind = "ok"
                 /\ returned.val = IntStr(expected[1]) \o <<".">>
                                   \o IntStr(expected[2]) \o <<".">>
                                   \o IntStr(expected[3])
                 /\ parse_version(returned.val) = Ok(expected)
            ELSE returned = Fail("InvalidPart")

\* C8 witness: 1.2.3 incremented by minor gave 1.3.0
C8_Witness ==
    /\ call = "increment_version"
    /\ version = <<"1", ".", "2", ".", "3">>
    /\ part = "minor"
    /\ returned = Ok(<<"1", ".", "3", ".", "0">>)

\* C9: parse_version fails with InvalidVersionFormat for every input that
\* does not split on "." into exactly 3 tokens and for every input with a
\* token that is not a base-10 integer, and returns three integers, all >= 0,
\* otherwise.
C9_ParseFailsWithInvalidVersionFormat ==
    (call = "parse_version") =>
        LET str_tokens == Split(version, ".")
        IN  IF Len(str_tokens) = 3 /\ \A i \in 1..3 : IntOk(str_tokens[i])
            THEN /\ returned.kind = "ok"
                 /\ Len(returned.val) = 3
                 /\ \A i \in 1..3 : returned.val[i] >= 0
            ELSE returned = Fail("InvalidVersionFormat")

\* C10 as stated: for every X.Y.Z whose three tokens are written with digits,
\* formatting the parsed tokens gives the string back.
C10_RoundTripAnyNumerals ==
    ( /\ call = "version_tokens_to_str"
      /\ \A i \in 1..3 : IsNumeral(Split(version, ".")[i]) )
    => returned.val = version

\* C10 amended: for every X.Y.Z whose three tokens are numerals without a
\* leading zero, formatting the parsed tokens gives the string back.
C10_RoundTripCanonical ==
    ( /\ call = "version_tokens_to_str"
      /\ \A i \in 1..3 : IsCanonical(Split(version, ".")[i]) )
    => returned = Ok(version)

\* C10 witness: 10.9.99 was parsed and formatted back
C10_Witness ==
    /\ call = "version_tokens_to_str"
    /\ version = <<"1", "0", ".", "9", ".", "9", "9">>
    /\ returned = Ok(version)

(***************************************************************************)
(* Properties of a run of main (checked under Spec).                       *)
(***************************************************************************)
\* whether old occurs in s
RECURSIVE Occurs(_, _)
Occurs(s, old) ==
    IF Len(s) < Len(old) THEN FALSE
    ELSE SubSeq(s, 1, Len(old)) = old \/ Occurs(Tail(s), old)

\* an argument or configuration value that is present and not empty
Given(o) == o # None /\ o # Some(<<>>)

HasRead(key) == key \in DOMAIN args

\* what file p held before the run (permissions never change)
Original(p) == InitialContent(p, files[p].perm, yaml_document)

\* what file p holds once the first k planned replacements have been written
RECURSIVE ExpectedContent(_, _)
ExpectedContent(p, k) ==
    IF k = 0 THEN Original(p)
    ELSE LET prev == ExpectedContent(p, k - 1)
             template == file_replace_configs[k].search_template
         IN  IF file_replace_configs[k].path = p
             THEN StrReplace(prev, Format(template, current_version),
                             Format(template, new_version))
             ELSE prev

\* replacement k changed its file and left the new version's text in it
Rewritten(k) ==
    LET p == file_replace_configs[k].path
        template == file_replace_configs[k].search_template
    IN  /\ ExpectedContent(p, k) # ExpectedContent(p, k - 1)
        /\ Occurs(ExpectedContent(p, k), Format(template, new_version))

PlanPaths(k) == [i \in 1..k |-> file_replace_configs[i].path]

\* the files hold exactly the first k planned replacements, written in order
AppliedUpTo(k) ==
    /\ modified_files = PlanPaths(k)
    /\ writes = PlanPaths(k)
    /\ \A i \in 1..k : Rewritten(i)
    /\ \A p \in DOMAIN files : files[p].content = ExpectedContent(p, k)

ReplaceFailures == {"FileNotAccessible", "NoReplacementPerformed"}

\* the command words (git <word> ...) of the commands run so far
CommandWords == [i \in 1..Len(commands) |-> commands[i].argv[2]]

\* C1: replacements are applied one at a time in plan order and the run
\* stops at the first one that fails: when replacement N of M fails, the
\* first N-1 files are rewritten with the new version, nothing is written
\* for replacements N..M, and no git command runs.
C1_AbortAtFirstFailure ==
    (pc # "Idle") =>
        /\ Len(modified_files) <= Len(file_replace_configs)
        /\ AppliedUpTo(Len(modified_files))
        /\ (pc = "ApplyReplacements" /\ modified_files # <<>>)
              => Len(modified_files) < Len(file_replace_configs)
        /\ (pc \in Ended /\ error \in ReplaceFailures) =>
              LET n == Len(modified_files) + 1
                  failing == file_replace_configs[n]
                  template == failing.search_template
              IN  /\ n <= Len(file_replace_configs)
                  /\ pc = "Failed"
                  /\ commands = <<>>
                  /\ (error = "FileNotAccessible") =
                        (files[failing.path].perm # "rw")
                  /\ (error = "NoReplacementPerformed") =>
                        StrReplace(files[failing.path].content,
                                   Format(template, current_version),
                                   Format(template, new_version))
                        = files[failing.path].content

\* C1 witness: replacement 2 of 3 failed (VERSION is missing) after the
\* configuration file was rewritten; setup.py, the third, is untouched
C1_Witness ==
    /\ pc = "Failed"
    /\ error = "FileNotAccessible"
    /\ Len(file_replace_configs) = 3
    /\ file_replace_configs[2].path = "VERSION"
    /\ file_replace_configs[3].path = "setup.py"
    /\ modified_files = <<config_path>>
    /\ files[config_path].content # Original(config_path)
    /\ files["setup.py"].content = Original("setup.py")

\* the replacement the loop is about to make
NextReplace == file_replace_configs[Len(modified_files) + 1]

NextSearch == Format(NextReplace.search_template, current_version)

NextReplacement == Format(NextReplace.search_template, new_version)

\* C2: a file_replace call on an accessible file whose content has no
\* occurrence of the search string, or whose content the replacement leaves
\* identical, fails with NoReplacementPerformed, leaves the content unchanged
\* and opens no file for writing.
C2_NothingToReplace ==
    [][ ( /\ pc = "ApplyReplacements"
          /\ Access(files[NextReplace.path])
          /\ \/ ~Occurs(files[NextReplace.path].content, NextSearch)
             \/ StrReplace(files[NextReplace.path].content, NextSearch,
                           NextReplacement)
                = files[NextReplace.path].content )
        => ( /\ pc' = "Failed"
             /\ error' = "NoReplacementPerformed"
             /\ files' = files
             /\ writes' = writes
             /\ modified_files' = modified_files ) ]_vars

\* C2 witness: a call failed on an accessible file without an occurrence of
\* the search string
C2_Witness ==
    /\ pc = "Failed"
    /\ error = "NoReplacementPerformed"
    /\ Access(files[NextReplace.path])
    /\ ~Occurs(files[NextReplace.path].content, NextSearch)
    /\ files[NextReplace.path].content = Original(NextReplace.path)

\* C3: no git command runs before every planned replacement has succeeded;
\* the commands run in the order reset, add, commit, tag, each only after the
\* one before it exited zero; a nonzero exit ends the run with
\* ExternalCommandFailed, the files stay rewritten, and after a failed
\* commit-step command no tag command runs.
C3_CommandOrder ==
    (pc # "Idle") =>
        /\ (commands # <<>>) =>
              /\ file_replace_configs # <<>>
              /\ AppliedUpTo(Len(file_replace_configs))
        /\ CommandWords \in { <<>>, <<"reset">>, <<"reset", "add">>,
                              <<"reset", "add", "commit">>,
                              <<"reset", "add", "commit", "tag">>, <<"tag">> }
        /\ \A i \in 1..(Len(commands) - 1) : commands[i].returncode = 0
        /\ (commands # <<>> /\ commands[Len(commands)].returncode # 0)
              = (pc = "Failed" /\ error = "ExternalCommandFailed")
        /\ (pc = "git_add") = (CommandWords = <<"reset">> /\ error = "none")
        /\ (pc = "git_commit")
              = (CommandWords = <<"reset", "add">> /\ error = "none")

\* C3 witness: git commit exited nonzero with git_tag enabled
C3_Witness ==
    /\ pc = "Failed"
    /\ error = "ExternalCommandFailed"
    /\ CommandWords = <<"reset", "add", "commit">>
    /\ config.git_tag = Some(TRUE)
    /\ Len(modified_files) = 3

\* the flag of a step: the override when it is set, else the configuration
FlagOf(key) ==
    IF args[key] = Some(TRUE) THEN TRUE
    ELSE IF args[key] = Some(FALSE) THEN FALSE
    ELSE config[key] = Some(TRUE)

CommitStepRan ==
    pc \in {"git_reset", "git_add", "git_commit"}
    \/ \E i \in 1..Len(commands) : commands[i].argv[2] = "reset"

TagStepRan ==
    pc = "git_tag" \/ \E i \in 1..Len(commands) : commands[i].argv[2] = "tag"

\* C4: once a run is past the test of a step, the Commit step (the Tag step)
\* has run exactly when its flag is true, the flag being the override when
\* set and the configuration value otherwise; before the test the step has
\* not run.
C4_StepsGatedByFlags ==
    (pc # "Idle") =>
        /\ IF HasRead("git_commit") THEN CommitStepRan = FlagOf("git_commit")
           ELSE ~CommitStepRan
        /\ IF HasRead("git_tag") THEN TagStepRan = FlagOf("git_tag")
           ELSE ~TagStepRan

\* C4 witness: --no-git-commit skipped the commit the configuration enables,
\* and the tag the configuration enables was made
C4_Witness ==
    /\ pc = "Done"
    /\ args["git_commit"] = Some(FALSE)
    /\ config.git_commit = Some(TRUE)
    /\ args["git_tag"] = None
    /\ config.git_tag = Some(TRUE)
    /\ CommandWords = <<"tag">>

\* C5: the current version is the override when one is given and the
\* configuration's current_version otherwise; with neither the run fails
\* with MissingCurrentVersion, no file written and no command run.
C5_CurrentVersion ==
    (pc # "Idle") =>
        /\ HasRead("current_version") =>
              IF Given(args["current_version"])
              THEN current_version = args["current_version"][1]
                   /\ error # "MissingCurrentVersion"
              ELSE IF Given(config.current_version)
              THEN current_version = config.current_version[1]
                   /\ error # "MissingCurrentVersion"
              ELSE /\ pc = "Failed"
                   /\ error = "MissingCurrentVersion"
                   /\ writes = <<>>
                   /\ commands = <<>>
                   /\ \A p \in DOMAIN files : files[p].content = Original(p)
        /\ (error = "MissingCurrentVersion") => HasRead("current_version")

\* C5 witness: the override was taken over the configuration's value
C5_Witness ==
    /\ pc = "ResolveNewVersion"
    /\ args["current_version"] = Some(V100)
    /\ config.current_version = Some(V010)
    /\ current_version = V100

ValidParts == {"major", "minor", "tiny"}

\* the version the increment by a part is to give
Incremented(v, p) ==
    LET t == parse_version(v).val
        n == IF p = "major" THEN <<t[1] + 1, 0, 0>>
             ELSE IF p = "minor" THEN <<t[1], t[2] + 1, 0>>
             ELSE <<t[1], t[2], t[3] + 1>>
    IN  IntStr(n[1]) \o <<".">> \o IntStr(n[2]) \o <<".">> \o IntStr(n[3])

NothingDone ==
    /\ pc \in {"Failed", "Crashed"}
    /\ writes = <<>>
    /\ commands = <<>>
    /\ \A p \in DOMAIN files : files[p].content = Original(p)

ResolveNewErrors ==
    {"MissingNewVersion", "InvalidPart", "InvalidVersionFormat", "ValueError"}

\* C6 as stated, for a current version that parses: the new version is the
\* explicit one when given, else the current version incremented by the
\* part; with neither an explicit new version nor a valid part the run fails
\* with MissingNewVersion and writes no file.
C6_MissingNewVersionUnlessValidPart ==
    ( /\ pc # "Idle"
      /\ HasRead("new_version")
      /\ parse_version(current_version).kind = "ok" ) =>
        IF Given(args["new_version"])
        THEN new_version = args["new_version"][1]
        ELSE IF args["part"] # None /\ args["part"][1] \in ValidParts
        THEN new_version = Incremented(current_version, args["part"][1])
        ELSE NothingDone /\ error = "MissingNewVersion"

\* C6 amended: the new version is the explicit one when given (whatever the
\* part); else, with a part given, increment_version decides: the current
\* version incremented for a valid part, InvalidPart for any other part,
\* and the parse failure when the current version does not parse; with
\* neither an explicit new version nor a part the run fails with
\* MissingNewVersion.  No failing case writes a file.
C6_NewVersion ==
    (pc # "Idle" /\ HasRead("new_version")) =>
        IF Given(args["new_version"])
        THEN new_version = args["new_version"][1]
             /\ error \notin ResolveNewErrors
        ELSE IF args["part"] = None
        THEN NothingDone /\ pc = "Failed" /\ error = "MissingNewVersion"
        ELSE IF parse_version(current_version).kind # "ok"
        THEN NothingDone /\ error \in {"InvalidVersionFormat", "ValueError"}
        ELSE IF args["part"][1] \in ValidParts
        THEN new_version = Incremented(current_version, args["part"][1])
             /\ error \notin ResolveNewErrors
        ELSE NothingDone /\ pc = "Failed" /\ error = "InvalidPart"

\* C6 witness: an explicit new version was taken although the part is not
\* a valid one
C6_Witness ==
    /\ pc = "PlanReplacements"
    /\ args["new_version"] = Some(V100)
    /\ args["part"] = Some("patch")
    /\ new_version = V100

Declared == IF config.file_replaces = None THEN <<>> ELSE config.file_replaces[1]

\* C7: the plan is the configuration file's path with the template
\* "current_version: {version}", then the file_replaces entries in declared
\* order; git add is given exactly the plan's paths in order, each rewritten,
\* and the commit message holds the current and the new version.
C7_PlanAndStagedFiles ==
    (pc # "Idle") =>
        /\ (file_replace_configs # <<>>) =>
              /\ Len(file_replace_configs) = 1 + Len(Declared)
              /\ file_replace_configs[1].path = config_path
              /\ file_replace_configs[1].search_template
                    = CurrentVersionKey \o <<VER>>
              /\ \A i \in 1..Len(Declared) :
                    file_replace_configs[i + 1] = Declared[i]
        /\ (pc \in {"ApplyReplacements", "Commit", "git_reset", "git_add",
                    "git_commit", "Tag", "git_tag", "Done"})
              => file_replace_configs # <<>>
        /\ \A j \in 1..Len(commands) :
              /\ (commands[j].argv[2] = "add") =>
                    /\ commands[j].argv
                          = <<"git", "add">>
                            \o PlanPaths(Len(file_replace_configs))
                    /\ \A i \in 1..Len(file_replace_configs) :
                          /\ Rewritten(i)
                          /\ files[file_replace_configs[i].path].content
                                = ExpectedContent(file_replace_configs[i].path,
                                                  Len(file_replace_configs))
              /\ (commands[j].argv[2] = "commit") =>
                    /\ Len(commands[j].argv) = 4
                    /\ commands[j].argv[3] = "-m"
                    /\ commands[j].argv[4]
                          = <<"Bumping version: ", current_version, " -> ",
                              new_version>>

\* C7 witness: a commit of three rewritten files, the configuration file
\* first
C7_Witness ==
    /\ pc = "Tag"
    /\ CommandWords = <<"reset", "add", "commit">>
    /\ commands[2].argv = <<"git", "add", config_path, "VERSION", "setup.py">>
    /\ commands[3].argv[4] = <<"Bumping version: ", V010, " -> ", V100>>

====
